---- MODULE Spec2Model ----
(***************************************************************************)
(* DataStore of spacexlaunchbot/storage.py: three fields kept in memory    *)
(* (the subscribed channels, the "launch embed sent" flag, the previous    *)
(* schedule embed dict) and pickled to one file by every mutating method.  *)
(*                                                                         *)
(* Python objects live in a heap of mutable objects addressed by           *)
(* reference, so that deepcopy, pickle.dump and pickle.load are modelled   *)
(* by what they do to references: deepcopy and pickle.load allocate fresh  *)
(* objects, pickle.dump turns an object graph into a value without         *)
(* references.  The caller of the store keeps a reference to a mutable     *)
(* object that crossed the API and may mutate it in place.                 *)
(***************************************************************************)
EXTENDS Integers, Sequences, FiniteSets, TLC

VARIABLES
    heap,       \* the Python heap: a sequence of objects, a reference is an index
    self,       \* the instance's __dict__: attribute name -> bool or reference
    instance,   \* whether a DataStore instance exists (its construction returned)
    file,       \* what is at _pickle_file_path
    held,       \* the caller's reference to a mutable object that crossed the API
    last,       \* the last call made on the store and how it ended
    faults,     \* number of file write failures injected so far
    failed,     \* a mutating call of this instance ended with an error
    live,       \* ids a call inserted (or the load brought in) and no call removed since
    owed,       \* ids an add returned True for (or the load brought in) and no
                \* remove returned True for since
    threads,    \* the threads calling the store at the same time: where each is
    overlap     \* a thread took a step while another was inside its call

vars == <<heap, self, instance, file, held, last, faults, failed, live, owed,
          threads, overlap>>

----------------------------------------------------------------------------
(* Bounds of the model. *)

\* channel ids are 1..MaxChannel
MaxChannel == 2
\* at most MaxFaults file writes fail in one behaviour
MaxFaults == 1
\* the threads that call the store at the same time, one mutating call each
MaxThreads == 2

ChannelIds == 1..MaxChannel
Threads == 1..MaxThreads
\* NotificationType is an enum of the notifications module; two of its members
NotificationTypes == {"all", "launch"}
Mentions == {"", "@here"}
\* the (notif_type, launch_mentions) pairs add_subbed_channel is called with
Subscriptions == {<<"all", "@here">>, <<"launch", "">>}
\* the embed dict is opaque to the store: keys and scalar leaves are numbered
EmbedKeys == {1}
EmbedScalars == {5}

----------------------------------------------------------------------------
(* Python objects. *)

SubscriptionOptions(notification_type, launch_mentions) ==
    [kind |-> "opts", notification_type |-> notification_type,
     launch_mentions |-> launch_mentions]

\* What a dict entry or an attribute holds: an immutable int (v), an immutable
\* bool (b), or a reference to another object (v, its address).  In a pickled
\* value, which has no references, a nested object is held by value (o).
None == [kind |-> "none"]
Scalar(v) == [t |-> "int", v |-> v, b |-> FALSE, o |-> None]
Bool(b) == [t |-> "bool", v |-> 0, b |-> b, o |-> None]
Ref(a) == [t |-> "ref", v |-> a, b |-> FALSE, o |-> None]
Obj(x) == [t |-> "obj", v |-> 0, b |-> FALSE, o |-> x]

Dict(items) == [kind |-> "dict", items |-> items]
EmptyItems == [k \in {} |-> Scalar(0)]

DictSet(items, key, e) ==
    [k \in DOMAIN items \cup {key} |-> IF k = key THEN e ELSE items[k]]
DictDel(items, key) ==
    [k \in DOMAIN items \ {key} |-> items[k]]

\* d1.update(d2)
DictUpdate(d1, d2) ==
    [k \in DOMAIN d1 \cup DOMAIN d2 |-> IF k \in DOMAIN d2 THEN d2[k] ELSE d1[k]]

Min(S) == CHOOSE x \in S : \A y \in S : x <= y

RECURSIVE SortedSeq(_)
SortedSeq(S) ==
    IF S = {} THEN <<>> ELSE <<Min(S)>> \o SortedSeq(S \ {Min(S)})

\* F applied to the value of x, with x evaluated once
With(x, F(_)) == CHOOSE y \in {F(r) : r \in {x}} : TRUE

Alloc(h, obj) == [heap |-> Append(h, obj), ref |-> Len(h) + 1]

----------------------------------------------------------------------------
(* copy.deepcopy: a fresh object for every mutable object reachable from a; *)
(* str, enum members, bool and int are immutable and shared.                *)

RECURSIVE deepcopy(_, _)
RECURSIVE DeepCopyItems(_, _, _, _)

DeepCopyItems(h, items, keys, acc) ==
    IF keys = <<>> THEN [heap |-> h, items |-> acc]
    ELSE LET k == Head(keys)
             e == items[k]
         IN  IF e.t = "ref"
             THEN With(deepcopy(h, e.v), LAMBDA c :
                       DeepCopyItems(c.heap, items, Tail(keys), DictSet(acc, k, Ref(c.ref))))
             ELSE DeepCopyItems(h, items, Tail(keys), DictSet(acc, k, e))

deepcopy(h, a) ==
    IF h[a].kind = "opts" THEN Alloc(h, h[a])
    ELSE With(DeepCopyItems(h, h[a].items, SortedSeq(DOMAIN h[a].items), EmptyItems),
              LAMBDA r : Alloc(r.heap, Dict(r.items)))

----------------------------------------------------------------------------
(* pickle.dump / pickle.load: dump writes the object graph as a value       *)
(* without references, load builds fresh objects from such a value.         *)

RECURSIVE pickle_dump(_, _)
pickle_dump(h, a) ==
    IF h[a].kind = "opts" THEN h[a]
    ELSE Dict([k \in DOMAIN h[a].items |->
                 IF h[a].items[k].t = "ref"
                 THEN Obj(pickle_dump(h, h[a].items[k].v))
                 ELSE h[a].items[k]])

RECURSIVE pickle_load(_, _)
RECURSIVE LoadItems(_, _, _, _)

LoadItems(h, items, keys, acc) ==
    IF keys = <<>> THEN [heap |-> h, items |-> acc]
    ELSE LET k == Head(keys)
             e == items[k]
         IN  IF e.t = "obj"
             THEN With(pickle_load(h, e.o), LAMBDA c :
                       LoadItems(c.heap, items, Tail(keys), DictSet(acc, k, Ref(c.ref))))
             ELSE LoadItems(h, items, Tail(keys), DictSet(acc, k, e))

pickle_load(h, v) ==
    IF v.kind = "opts" THEN Alloc(h, v)
    ELSE With(LoadItems(h, v.items, SortedSeq(DOMAIN v.items), EmptyItems),
              LAMBDA r : Alloc(r.heap, Dict(r.items)))

----------------------------------------------------------------------------
(* Garbage collection: objects no reference reaches are dropped and the     *)
(* rest renumbered in the order a traversal from the roots meets them. An   *)
(* address has no meaning beyond identity, so this changes nothing the      *)
(* program can observe.                                                     *)

InSeq(x, s) == \E i \in 1..Len(s) : s[i] = x

\* the elements of sequence s that are in S, in order
RECURSIVE Only(_, _)
Only(s, S) ==
    IF s = <<>> THEN <<>>
    ELSE (IF Head(s) \in S THEN <<Head(s)>> ELSE <<>>) \o Only(Tail(s), S)

RECURSIVE Children(_, _)
Children(items, keys) ==
    IF keys = <<>> THEN <<>>
    ELSE (IF items[Head(keys)].t = "ref" THEN <<items[Head(keys)].v>> ELSE <<>>)
         \o Children(items, Tail(keys))

RECURSIVE Visit(_, _, _)
Visit(h, todo, seen) ==
    IF todo = <<>> THEN seen
    ELSE IF InSeq(Head(todo), seen) THEN Visit(h, Tail(todo), seen)
    ELSE LET a == Head(todo)
             kids == IF h[a].kind = "dict"
                     THEN Children(h[a].items, SortedSeq(DOMAIN h[a].items))
                     ELSE <<>>
         IN  Visit(h, kids \o Tail(todo), Append(seen, a))

\* the addresses reachable from reference a
Reachable(h, a) == LET s == Visit(h, <<a>>, <<>>) IN {s[i] : i \in 1..Len(s)}

Renamed(e, order) ==
    IF e.t = "ref" THEN Ref(CHOOSE i \in 1..Len(order) : order[i] = e.v) ELSE e

Compact(h, slf, hld) ==
    LET roots == Children(slf, Only(<<"_subscribed_channels",
                                      "_previous_schedule_embed_dict">>, DOMAIN slf))
                 \o (IF hld.is = "none" THEN <<>> ELSE <<hld.ref>>)
        order == Visit(h, roots, <<>>)
    IN  [heap |-> [i \in 1..Len(order) |->
                     IF h[order[i]].kind = "dict"
                     THEN Dict([k \in DOMAIN h[order[i]].items |->
                                  Renamed(h[order[i]].items[k], order)])
                     ELSE h[order[i]]],
         self |-> [k \in DOMAIN slf |-> Renamed(slf[k], order)],
         held |-> IF hld.is = "none" THEN hld
                  ELSE [hld EXCEPT !.ref = Renamed(Ref(hld.ref), order).v]]

----------------------------------------------------------------------------
(* The persisted file. *)

Absent == [kind |-> "absent"]
\* the file exists and open(..., "rb") raises an OSError other than FileNotFoundError
Unreadable == [kind |-> "unreadable"]
\* the file was opened with "wb" (which empties it) and the dump did not complete
Truncated == [kind |-> "truncated"]
\* a complete pickle stream of a dict: key -> pickled value
Pickled(val) == [kind |-> "pickle", val |-> val]

AttrNames == <<"_subscribed_channels", "_launch_embed_for_current_schedule_sent",
               "_previous_schedule_embed_dict">>

\* the value pickle.dump writes for a dict with str keys
DumpAttrs(h, d) ==
    [k \in DOMAIN d |-> IF d[k].t = "ref" THEN Obj(pickle_dump(h, d[k].v)) ELSE d[k]]

\* what can happen to one open(..., "wb") + pickle.dump
WriteOutcomes == {"ok", "open_fails", "dump_fails"}

----------------------------------------------------------------------------
(* DataStore.  Every method is an operator from the state it reads (the     *)
(* heap h, the instance's __dict__ slf, the file fl) and its arguments to   *)
(* the state it leaves and how the call ended.  fault is what happens to    *)
(* the file write, should the method reach one.                             *)

NoSelf == [k \in {} |-> Bool(FALSE)]

\* __init__ that unpickles the file and never applies it to the instance
DataStore_init_not_applied(h, fl) ==
    LET a == Alloc(h, Dict(EmptyItems))
        b == Alloc(a.heap, Dict(EmptyItems))
        defaults == "_subscribed_channels" :> Ref(a.ref)
                    @@ "_launch_embed_for_current_schedule_sent" :> Bool(FALSE)
                    @@ "_previous_schedule_embed_dict" :> Ref(b.ref)
    IN  IF fl.kind \in {"absent", "pickle"}
        THEN [heap |-> b.heap, self |-> defaults, file |-> fl, instance |-> TRUE,
              result |-> "None", saves |-> 0]
        ELSE [heap |-> h, self |-> NoSelf, file |-> fl, instance |-> FALSE,
              result |-> "raise", saves |-> 0]

\* __init__ without the except clause: a missing file is an error
DataStore_init_no_except(h, fl) ==
    LET a == Alloc(h, Dict(EmptyItems))
        b == Alloc(a.heap, Dict(EmptyItems))
        defaults == "_subscribed_channels" :> Ref(a.ref)
                    @@ "_launch_embed_for_current_schedule_sent" :> Bool(FALSE)
                    @@ "_previous_schedule_embed_dict" :> Ref(b.ref)
    IN  IF fl.kind = "pickle"
        THEN LET tmp == LoadItems(b.heap, fl.val, Only(AttrNames, DOMAIN fl.val),
                                  EmptyItems)
             IN  [heap |-> tmp.heap, self |-> DictUpdate(defaults, tmp.items),
                  file |-> fl, instance |-> TRUE, result |-> "None", saves |-> 0]
        ELSE [heap |-> h, self |-> NoSelf, file |-> fl, instance |-> FALSE,
              result |-> "raise", saves |-> 0]

\* __init__ that writes the default image when it finds no file
DataStore_init_creates_file(h, fl) ==
    LET a == Alloc(h, Dict(EmptyItems))
        b == Alloc(a.heap, Dict(EmptyItems))
        defaults == "_subscribed_channels" :> Ref(a.ref)
                    @@ "_launch_embed_for_current_schedule_sent" :> Bool(FALSE)
                    @@ "_previous_schedule_embed_dict" :> Ref(b.ref)
        raised == [heap |-> h, self |-> NoSelf, file |-> fl, instance |-> FALSE,
                   result |-> "raise", saves |-> 0]
    IN  CASE fl.kind = "absent" ->
               [heap |-> b.heap, self |-> defaults,
                file |-> Pickled(DumpAttrs(b.heap, defaults)), instance |-> TRUE,
                result |-> "None", saves |-> 0]
          [] fl.kind = "unreadable" -> raised
          [] fl.kind = "truncated" -> raised
          [] fl.kind = "pickle" ->
               LET tmp == LoadItems(b.heap, fl.val,
                                    Only(AttrNames, DOMAIN fl.val), EmptyItems)
               IN  [heap |-> tmp.heap, self |-> DictUpdate(defaults, tmp.items),
                    file |-> fl, instance |-> TRUE, result |-> "None", saves |-> 0]

\* DataStore.__init__
DataStore_init(h, fl) ==
    LET a == Alloc(h, Dict(EmptyItems))
        b == Alloc(a.heap, Dict(EmptyItems))
        defaults == "_subscribed_channels" :> Ref(a.ref)
                    @@ "_launch_embed_for_current_schedule_sent" :> Bool(FALSE)
                    @@ "_previous_schedule_embed_dict" :> Ref(b.ref)
        raised == [heap |-> h, self |-> NoSelf, file |-> fl, instance |-> FALSE,
                   result |-> "raise", saves |-> 0]
    IN  CASE fl.kind = "absent" ->
               \* FileNotFoundError is caught and logged
               [heap |-> b.heap, self |-> defaults, file |-> fl, instance |-> TRUE,
                result |-> "None", saves |-> 0]
          [] fl.kind = "unreadable" -> raised
          [] fl.kind = "truncated" -> raised
          [] fl.kind = "pickle" ->
               LET tmp == LoadItems(b.heap, fl.val,
                                    Only(AttrNames, DOMAIN fl.val), EmptyItems)
               IN  [heap |-> tmp.heap, self |-> DictUpdate(defaults, tmp.items),
                    file |-> fl, instance |-> TRUE, result |-> "None", saves |-> 0]

\* save whose to_dump leaves out the flag
save_without_flag(h, slf, fl, fault) ==
    LET to_dump ==
            "_subscribed_channels" :> slf["_subscribed_channels"]
            @@ "_previous_schedule_embed_dict" :> slf["_previous_schedule_embed_dict"]
    IN  CASE fault = "open_fails" -> [file |-> fl, raised |-> TRUE]
          [] fault = "dump_fails" -> [file |-> Truncated, raised |-> TRUE]
          [] OTHER -> [file |-> Pickled(DumpAttrs(h, to_dump)), raised |-> FALSE]

\* to_dump without the embed dict
save_to_dump_without_embed(slf) ==
    "_subscribed_channels" :> slf["_subscribed_channels"]
    @@ "_launch_embed_for_current_schedule_sent" :>
           slf["_launch_embed_for_current_schedule_sent"]

\* the first statement of save: to_dump refers to the objects the attributes
\* refer to at this moment, and holds the flag by value
save_to_dump(slf) ==
    "_subscribed_channels" :> slf["_subscribed_channels"]
    @@ "_launch_embed_for_current_schedule_sent" :>
           slf["_launch_embed_for_current_schedule_sent"]
    @@ "_previous_schedule_embed_dict" :> slf["_previous_schedule_embed_dict"]

\* the with statement of save, when it succeeds: the objects to_dump refers
\* to are pickled as they are at this moment
save_write(h, to_dump) == Pickled(DumpAttrs(h, to_dump))

save(h, slf, fl, fault) ==
    LET to_dump ==
            "_subscribed_channels" :> slf["_subscribed_channels"]
            @@ "_launch_embed_for_current_schedule_sent" :>
                   slf["_launch_embed_for_current_schedule_sent"]
            @@ "_previous_schedule_embed_dict" :> slf["_previous_schedule_embed_dict"]
    IN  CASE fault = "open_fails" -> [file |-> fl, raised |-> TRUE]
          [] fault = "dump_fails" -> [file |-> Truncated, raised |-> TRUE]
          [] OTHER -> [file |-> Pickled(DumpAttrs(h, to_dump)), raised |-> FALSE]

get_notification_task_vars(h, slf) ==
    LET c == deepcopy(h, slf["_previous_schedule_embed_dict"].v)
    IN  [heap |-> c.heap, flag |-> slf["_launch_embed_for_current_schedule_sent"].b,
         ref |-> c.ref]

\* set_notification_task_vars that does not save when given the values it holds
set_notification_task_vars_skip_same(h, slf, fl, launch_embed_for_current_schedule_sent, previous_schedule_embed_dict, fault) ==
    LET c == deepcopy(h, previous_schedule_embed_dict)
        s1 == [slf EXCEPT
                 !["_launch_embed_for_current_schedule_sent"] =
                     Bool(launch_embed_for_current_schedule_sent),
                 !["_previous_schedule_embed_dict"] = Ref(c.ref)]
        w == save(c.heap, s1, fl, fault)
    IN  IF /\ slf["_launch_embed_for_current_schedule_sent"].b
                 = launch_embed_for_current_schedule_sent
           /\ pickle_dump(h, slf["_previous_schedule_embed_dict"].v)
                 = pickle_dump(h, previous_schedule_embed_dict)
        THEN [heap |-> c.heap, self |-> s1, file |-> fl, result |-> "None", saves |-> 0]
        ELSE [heap |-> c.heap, self |-> s1, file |-> w.file,
              result |-> IF w.raised THEN "raise" ELSE "None", saves |-> 1]

\* set_notification_task_vars that keeps the dict it was passed
set_notification_task_vars_no_copy(h, slf, fl, launch_embed_for_current_schedule_sent, previous_schedule_embed_dict, fault) ==
    LET s1 == [slf EXCEPT
                 !["_launch_embed_for_current_schedule_sent"] =
                     Bool(launch_embed_for_current_schedule_sent),
                 !["_previous_schedule_embed_dict"] = Ref(previous_schedule_embed_dict)]
        w == save(h, s1, fl, fault)
    IN  [heap |-> h, self |-> s1, file |-> w.file,
         result |-> IF w.raised THEN "raise" ELSE "None", saves |-> 1]

set_notification_task_vars(h, slf, fl, launch_embed_for_current_schedule_sent, previous_schedule_embed_dict, fault) ==
    LET c == deepcopy(h, previous_schedule_embed_dict)
        s1 == [slf EXCEPT
                 !["_launch_embed_for_current_schedule_sent"] =
                     Bool(launch_embed_for_current_schedule_sent),
                 !["_previous_schedule_embed_dict"] = Ref(c.ref)]
        w == save(c.heap, s1, fl, fault)
    IN  [heap |-> c.heap, self |-> s1, file |-> w.file,
         result |-> IF w.raised THEN "raise" ELSE "None", saves |-> 1]

\* add_subbed_channel without the membership test: an existing entry is replaced
add_subbed_channel_overwrite(h, slf, fl, channel_id, notif_type, launch_mentions, fault) ==
    LET reg == slf["_subscribed_channels"].v
        o == Alloc(h, SubscriptionOptions(notif_type, launch_mentions))
        h1 == [o.heap EXCEPT ![reg].items = DictSet(@, channel_id, Ref(o.ref))]
        w == save(h1, slf, fl, fault)
    IN  [heap |-> h1, self |-> slf, file |-> w.file,
         result |-> IF w.raised THEN "raise" ELSE "True", saves |-> 1]

\* add_subbed_channel that catches the error of save and returns True
add_subbed_channel_swallow(h, slf, fl, channel_id, notif_type, launch_mentions, fault) ==
    LET reg == slf["_subscribed_channels"].v
    IN  IF channel_id \notin DOMAIN h[reg].items
        THEN LET o == Alloc(h, SubscriptionOptions(notif_type, launch_mentions))
                 h1 == [o.heap EXCEPT ![reg].items = DictSet(@, channel_id, Ref(o.ref))]
                 w == save(h1, slf, fl, fault)
             IN  [heap |-> h1, self |-> slf, file |-> w.file, result |-> "True",
                  saves |-> 1]
        ELSE [heap |-> h, self |-> slf, file |-> fl, result |-> "False", saves |-> 0]

\* add_subbed_channel that calls save also when the id is already present
add_subbed_channel_resave(h, slf, fl, channel_id, notif_type, launch_mentions, fault) ==
    LET reg == slf["_subscribed_channels"].v
    IN  IF channel_id \notin DOMAIN h[reg].items
        THEN LET o == Alloc(h, SubscriptionOptions(notif_type, launch_mentions))
                 h1 == [o.heap EXCEPT ![reg].items = DictSet(@, channel_id, Ref(o.ref))]
                 w == save(h1, slf, fl, fault)
             IN  [heap |-> h1, self |-> slf, file |-> w.file,
                  result |-> IF w.raised THEN "raise" ELSE "True", saves |-> 1]
        ELSE LET w == save(h, slf, fl, fault)
             IN  [heap |-> h, self |-> slf, file |-> w.file,
                  result |-> IF w.raised THEN "raise" ELSE "False", saves |-> 1]

\* add_subbed_channel that drops the launch_mentions it is given
add_subbed_channel_no_mentions(h, slf, fl, channel_id, notif_type, launch_mentions, fault) ==
    LET reg == slf["_subscribed_channels"].v
    IN  IF channel_id \notin DOMAIN h[reg].items
        THEN LET o == Alloc(h, SubscriptionOptions(notif_type, ""))
                 h1 == [o.heap EXCEPT ![reg].items = DictSet(@, channel_id, Ref(o.ref))]
                 w == save(h1, slf, fl, fault)
             IN  [heap |-> h1, self |-> slf, file |-> w.file,
                  result |-> IF w.raised THEN "raise" ELSE "True", saves |-> 1]
        ELSE [heap |-> h, self |-> slf, file |-> fl, result |-> "False", saves |-> 0]

\* add_subbed_channel that takes the entry out again when save raises
add_subbed_channel_rollback(h, slf, fl, channel_id, notif_type, launch_mentions, fault) ==
    LET reg == slf["_subscribed_channels"].v
    IN  IF channel_id \notin DOMAIN h[reg].items
        THEN LET o == Alloc(h, SubscriptionOptions(notif_type, launch_mentions))
                 h1 == [o.heap EXCEPT ![reg].items = DictSet(@, channel_id, Ref(o.ref))]
                 w == save(h1, slf, fl, fault)
             IN  [heap |-> IF w.raised THEN h ELSE h1, self |-> slf, file |-> w.file,
                  result |-> IF w.raised THEN "raise" ELSE "True", saves |-> 1]
        ELSE [heap |-> h, self |-> slf, file |-> fl, result |-> "False", saves |-> 0]

add_subbed_channel(h, slf, fl, channel_id, notif_type, launch_mentions, fault) ==
    LET reg == slf["_subscribed_channels"].v
    IN  IF channel_id \notin DOMAIN h[reg].items
        THEN LET o == Alloc(h, SubscriptionOptions(notif_type, launch_mentions))
                 h1 == [o.heap EXCEPT ![reg].items = DictSet(@, channel_id, Ref(o.ref))]
                 w == save(h1, slf, fl, fault)
             IN  [heap |-> h1, self |-> slf, file |-> w.file,
                  result |-> IF w.raised THEN "raise" ELSE "True", saves |-> 1]
        ELSE [heap |-> h, self |-> slf, file |-> fl, result |-> "False", saves |-> 0]

\* get_subbed_channels that copies the dict and shares its SubscriptionOptions
get_subbed_channels_shallow(h, slf) == Alloc(h, h[slf["_subscribed_channels"].v])

get_subbed_channels(h, slf) == deepcopy(h, slf["_subscribed_channels"].v)

\* remove_subbed_channel that empties the registry
remove_subbed_channel_clears(h, slf, fl, channel_id, fault) ==
    LET reg == slf["_subscribed_channels"].v
    IN  IF channel_id \in DOMAIN h[reg].items
        THEN LET h1 == [h EXCEPT ![reg].items = EmptyItems]
                 w == save(h1, slf, fl, fault)
             IN  [heap |-> h1, self |-> slf, file |-> w.file,
                  result |-> IF w.raised THEN "raise" ELSE "True", saves |-> 1]
        ELSE [heap |-> h, self |-> slf, file |-> fl, result |-> "False", saves |-> 0]

\* remove_subbed_channel that pops the id if present, saves, and returns True
remove_subbed_channel_always_true(h, slf, fl, channel_id, fault) ==
    LET reg == slf["_subscribed_channels"].v
        h1 == [h EXCEPT ![reg].items = DictDel(@, channel_id)]
        w == save(h1, slf, fl, fault)
    IN  [heap |-> h1, self |-> slf, file |-> w.file,
         result |-> IF w.raised THEN "raise" ELSE "True", saves |-> 1]

\* remove_subbed_channel that saves and returns True without deleting the id
remove_subbed_channel_keeps(h, slf, fl, channel_id, fault) ==
    LET reg == slf["_subscribed_channels"].v
    IN  IF channel_id \in DOMAIN h[reg].items
        THEN LET w == save(h, slf, fl, fault)
             IN  [heap |-> h, self |-> slf, file |-> w.file,
                  result |-> IF w.raised THEN "raise" ELSE "True", saves |-> 1]
        ELSE [heap |-> h, self |-> slf, file |-> fl, result |-> "False", saves |-> 0]

remove_subbed_channel(h, slf, fl, channel_id, fault) ==
    LET reg == slf["_subscribed_channels"].v
    IN  IF channel_id \in DOMAIN h[reg].items
        THEN LET h1 == [h EXCEPT ![reg].items = DictDel(@, channel_id)]
                 w == save(h1, slf, fl, fault)
             IN  [heap |-> h1, self |-> slf, file |-> w.file,
                  result |-> IF w.raised THEN "raise" ELSE "True", saves |-> 1]
        ELSE [heap |-> h, self |-> slf, file |-> fl, result |-> "False", saves |-> 0]

subbed_channels_count(h, slf) ==
    Cardinality(DOMAIN h[slf["_subscribed_channels"].v].items)

----------------------------------------------------------------------------
(* Inputs. *)

SampleOptions == SubscriptionOptions("all", "@here")

\* embed dicts the caller builds: empty, and nested
SampleEmbeds ==
    << Dict(EmptyItems),
       Dict(1 :> Obj(Dict(1 :> Scalar(5)))) >>

\* a complete image, as save writes it
SampleImage ==
    "_subscribed_channels" :> Obj(Dict(1 :> Obj(SampleOptions)))
    @@ "_launch_embed_for_current_schedule_sent" :> Bool(TRUE)
    @@ "_previous_schedule_embed_dict" :> Obj(SampleEmbeds[2])

\* what may be at the path when the process starts: nothing, a file that
\* cannot be opened, a file a failed dump left behind, a complete image, and
\* valid pickles of a dict that lacks fields (the image has no version tag)
InitialFiles ==
    { Absent, Unreadable, Truncated,
      Pickled(SampleImage),
      Pickled("_subscribed_channels" :> Obj(Dict(1 :> Obj(SampleOptions)))),
      Pickled(EmptyItems) }

\* a call: the method, its channel_id (0: none), its (notif_type, launch_mentions)
\* or, for set_notification_task_vars, its flag argument as the first of the
\* pair, how it ended ("raise": with an exception) and how many times it
\* called save
Call(op, id, opt, result, saves) ==
    [op |-> op, id |-> id, opt |-> opt, result |-> result, saves |-> saves]
NoOpt == <<"", "">>
\* the flag argument of set_notification_task_vars, as a call records it
SentOpt(sent) == <<IF sent THEN "True" ELSE "False", "">>
NoCall == Call("none", 0, NoOpt, "None", 0)
NotHeld == [is |-> "none", ref |-> 0]
\* a thread: where it is in its call ("idle": not called yet, "updated": the
\* in-memory fields are changed, "built": to_dump is built, "done": returned),
\* the call, and its to_dump
Thread(pc, call, dump) == [pc |-> pc, call |-> call, dump |-> dump]
Idle == Thread("idle", NoCall, NoSelf)

\* the ids of the registry a pickled dict holds
PickledIds(fl) ==
    IF fl.kind = "pickle" /\ "_subscribed_channels" \in DOMAIN fl.val
    THEN DOMAIN fl.val["_subscribed_channels"].o.items
    ELSE {}

\* the process has started and has not constructed its DataStore yet
Start ==
    /\ heap = <<>>
    /\ self = NoSelf
    /\ instance = FALSE
    /\ file \in InitialFiles
    /\ held = NotHeld
    /\ last = NoCall
    /\ failed = FALSE
    /\ live = {}
    /\ owed = {}
    /\ threads = [t \in Threads |-> Idle]
    /\ overlap = FALSE

Init == Start /\ faults = 0

----------------------------------------------------------------------------
(* Actions: one per call of the API, and the caller's own steps. *)

\* the write outcomes still open to a call
Outcomes == IF faults < MaxFaults THEN WriteOutcomes ELSE {"ok"}

\* the state a mutating call r leaves
Commit(r, op, id, opt, fault) ==
    LET c == Compact(r.heap, r.self, held)
    IN  /\ heap' = c.heap
        /\ self' = c.self
        /\ held' = c.held
        /\ file' = r.file
        /\ last' = Call(op, id, opt, r.result, r.saves)
        /\ faults' = IF r.saves > 0 /\ fault # "ok" THEN faults + 1 ELSE faults
        /\ failed' = (failed \/ r.result = "raise")
        /\ instance' = instance
        /\ UNCHANGED <<threads, overlap>>

\* the process (re)starts: any previous instance is gone, a new one is constructed
Construct ==
    LET r == DataStore_init(<<>>, file)
        c == Compact(r.heap, r.self, NotHeld)
    IN  /\ heap' = c.heap
        /\ self' = c.self
        /\ held' = NotHeld
        /\ instance' = r.instance
        /\ file' = r.file
        /\ last' = Call("init", 0, NoOpt, r.result, r.saves)
        /\ failed' = FALSE
        /\ live' = (IF r.instance THEN PickledIds(file) ELSE {})
        /\ owed' = (IF r.instance THEN PickledIds(file) ELSE {})
        /\ UNCHANGED <<faults, threads, overlap>>

GetNotificationTaskVars ==
    /\ instance
    /\ LET r == get_notification_task_vars(heap, self)
           c == Compact(r.heap, self, [is |-> "snap", ref |-> r.ref])
       IN  /\ heap' = c.heap
           /\ self' = c.self
           /\ held' = c.held
           /\ last' = Call("get_notification_task_vars", 0, NoOpt,
                            IF r.flag THEN "True" ELSE "False", 0)
    /\ UNCHANGED <<instance, file, faults, failed, live, owed, threads, overlap>>

\* the caller passes the embed dict it holds, and keeps its reference
SetNotificationTaskVars ==
    /\ instance
    /\ held.is = "snap"
    /\ \E sent \in BOOLEAN, fault \in Outcomes :
         Commit(set_notification_task_vars(heap, self, file, sent, held.ref, fault),
                "set_notification_task_vars", 0, SentOpt(sent), fault)
    /\ UNCHANGED <<live, owed>>

AddSubbedChannel ==
    /\ instance
    /\ \E id \in ChannelIds, s \in Subscriptions, fault \in Outcomes :
         LET r == add_subbed_channel(heap, self, file, id, s[1], s[2], fault)
         IN  /\ Commit(r, "add_subbed_channel", id, s, fault)
             /\ live' = (IF r.result # "False" THEN live \cup {id} ELSE live)
             /\ owed' = (IF r.result = "True" THEN owed \cup {id} ELSE owed)

GetSubbedChannels ==
    /\ instance
    /\ LET r == get_subbed_channels(heap, self)
           c == Compact(r.heap, self, [is |-> "subs", ref |-> r.ref])
       IN  /\ heap' = c.heap
           /\ self' = c.self
           /\ held' = c.held
           /\ last' = Call("get_subbed_channels", 0, NoOpt, "dict", 0)
    /\ UNCHANGED <<instance, file, faults, failed, live, owed, threads, overlap>>

RemoveSubbedChannel ==
    /\ instance
    /\ \E id \in ChannelIds, fault \in Outcomes :
         LET r == remove_subbed_channel(heap, self, file, id, fault)
         IN  /\ Commit(r, "remove_subbed_channel", id, NoOpt, fault)
             /\ live' = (IF r.result # "False" THEN live \ {id} ELSE live)
             /\ owed' = (IF r.result = "True" THEN owed \ {id} ELSE owed)

SubbedChannelsCount ==
    /\ instance
    /\ last' = Call("subbed_channels_count", 0, NoOpt, "int", 0)
    /\ subbed_channels_count(heap, self) >= 0
    /\ UNCHANGED <<heap, self, instance, file, held, faults, failed, live, owed,
                   threads, overlap>>

\* a caller step leaves the store's variables to the heap they share
CallerStep(h, hld) ==
    LET c == Compact(h, self, hld)
    IN  /\ heap' = c.heap
        /\ self' = c.self
        /\ held' = c.held
        /\ last' = Call("caller", 0, NoOpt, "None", 0)
        /\ UNCHANGED <<instance, file, faults, failed, live, owed, threads, overlap>>

\* the caller builds an embed dict of its own
CallerNewEmbed ==
    /\ instance
    /\ \E i \in 1..Len(SampleEmbeds) :
         LET n == pickle_load(heap, SampleEmbeds[i])
         IN  CallerStep(n.heap, [is |-> "snap", ref |-> n.ref])

\* in-place mutations of an object the caller can reach from what it holds
CallerDelKey ==
    /\ held.is # "none"
    /\ \E a \in Reachable(heap, held.ref) :
         /\ heap[a].kind = "dict"
         /\ \E k \in DOMAIN heap[a].items :
              CallerStep([heap EXCEPT ![a].items = DictDel(@, k)], held)

CallerSetKey ==
    /\ held.is = "snap"
    /\ \E a \in Reachable(heap, held.ref), k \in EmbedKeys, v \in EmbedScalars :
         /\ heap[a].kind = "dict"
         /\ CallerStep([heap EXCEPT ![a].items = DictSet(@, k, Scalar(v))], held)

CallerAddKey ==
    /\ held.is = "subs"
    /\ \E id \in ChannelIds, s \in Subscriptions :
         /\ id \notin DOMAIN heap[held.ref].items
         /\ LET o == Alloc(heap, SubscriptionOptions(s[1], s[2]))
            IN  CallerStep([o.heap EXCEPT ![held.ref].items = DictSet(@, id, Ref(o.ref))],
                           held)

CallerSetField ==
    /\ held.is = "subs"
    /\ \E a \in Reachable(heap, held.ref) :
         /\ heap[a].kind = "opts"
         /\ \/ \E t \in NotificationTypes :
                 CallerStep([heap EXCEPT ![a].notification_type = t], held)
            \/ \E m \in Mentions :
                 CallerStep([heap EXCEPT ![a].launch_mentions = m], held)

\* The store under file write failures.  The caller builds the embed dicts
\* it passes and keeps what it is handed, without mutating it.
Next ==
    \/ Construct
    \/ GetNotificationTaskVars
    \/ SetNotificationTaskVars
    \/ AddSubbedChannel
    \/ GetSubbedChannels
    \/ RemoveSubbedChannel
    \/ SubbedChannelsCount
    \/ CallerNewEmbed

Spec == Init /\ [][Next]_vars

\* The store and a caller that mutates in place whatever it holds; every
\* file write succeeds (no write failure is left to inject).
InitIso == Start /\ faults = MaxFaults

NextIso ==
    \/ Next
    \/ CallerDelKey
    \/ CallerSetKey
    \/ CallerAddKey
    \/ CallerSetField

SpecIso == InitIso /\ [][NextIso]_vars

\* The store when the caller retries: adds, removes and restarts, with one
\* more write failure than Spec allows, so that a failed call can be
\* followed by another failed call.
RetryOutcomes == IF faults < MaxFaults + 1 THEN WriteOutcomes ELSE {"ok"}

RetryAdd ==
    /\ instance
    /\ \E id \in ChannelIds, s \in Subscriptions, fault \in RetryOutcomes :
         LET r == add_subbed_channel(heap, self, file, id, s[1], s[2], fault)
         IN  /\ Commit(r, "add_subbed_channel", id, s, fault)
             /\ live' = (IF r.result # "False" THEN live \cup {id} ELSE live)
             /\ owed' = (IF r.result = "True" THEN owed \cup {id} ELSE owed)

RetryRemove ==
    /\ instance
    /\ \E id \in ChannelIds, fault \in RetryOutcomes :
         LET r == remove_subbed_channel(heap, self, file, id, fault)
         IN  /\ Commit(r, "remove_subbed_channel", id, NoOpt, fault)
             /\ live' = (IF r.result # "False" THEN live \ {id} ELSE live)
             /\ owed' = (IF r.result = "True" THEN owed \ {id} ELSE owed)

NextRetry ==
    \/ Construct
    \/ RetryAdd
    \/ RetryRemove
    \/ SubbedChannelsCount

SpecRetry == Init /\ [][NextRetry]_vars

----------------------------------------------------------------------------
(* Threads.  DataStore holds no lock, so when threads call its mutators the *)
(* calls interleave between the steps of a call: the update of the          *)
(* in-memory fields, the building of to_dump, and the write of the file.    *)
(* Each thread makes one mutating call on the instance the process          *)
(* constructed; every write succeeds.  The call history kept for the        *)
(* serialized store (failed, live, owed) is not kept here, and nothing is   *)
(* collected: a thread's to_dump refers to objects of the heap.             *)

\* a step of thread t is taken while another thread is inside its call
Inside(t) == \E u \in Threads \ {t} : threads[u].pc \in {"updated", "built"}

\* thread t has changed the in-memory fields as call r does; a call that
\* does not reach save returns at once
ThreadUpdated(t, r, op, id, opt) ==
    /\ heap' = r.heap
    /\ self' = r.self
    /\ IF r.saves = 0
       THEN /\ threads' = [threads EXCEPT
                             ![t] = Thread("done", Call(op, id, opt, r.result, 0), NoSelf)]
            /\ last' = Call(op, id, opt, r.result, 0)
       ELSE /\ threads' = [threads EXCEPT
                             ![t] = Thread("updated", Call(op, id, opt, r.result, 1), NoSelf)]
            /\ last' = last
    /\ overlap' = (overlap \/ Inside(t))
    /\ UNCHANGED <<instance, file, held, faults, failed, live, owed>>

\* the process constructs its one instance before the threads start
ThreadsConstruct ==
    /\ last = NoCall
    /\ Construct

ThreadSet(t) ==
    /\ instance
    /\ threads[t].pc = "idle"
    /\ \E sent \in BOOLEAN, i \in 1..Len(SampleEmbeds) :
         LET n == pickle_load(heap, SampleEmbeds[i])
         IN  ThreadUpdated(t, set_notification_task_vars(n.heap, self, file, sent, n.ref, "ok"),
                           "set_notification_task_vars", 0, SentOpt(sent))

ThreadAdd(t) ==
    /\ instance
    /\ threads[t].pc = "idle"
    /\ \E id \in ChannelIds, s \in Subscriptions :
         ThreadUpdated(t, add_subbed_channel(heap, self, file, id, s[1], s[2], "ok"),
                       "add_subbed_channel", id, s)

ThreadRemove(t) ==
    /\ instance
    /\ threads[t].pc = "idle"
    /\ \E id \in ChannelIds :
         ThreadUpdated(t, remove_subbed_channel(heap, self, file, id, "ok"),
                       "remove_subbed_channel", id, NoOpt)

\* save, its first statement
ThreadBuild(t) ==
    /\ threads[t].pc = "updated"
    /\ threads' = [threads EXCEPT ![t].pc = "built", ![t].dump = save_to_dump(self)]
    /\ overlap' = (overlap \/ Inside(t))
    /\ UNCHANGED <<heap, self, instance, file, held, last, faults, failed, live, owed>>

\* save, its with statement, and the return of the mutator
ThreadWrite(t) ==
    /\ threads[t].pc = "built"
    /\ file' = save_write(heap, threads[t].dump)
    /\ threads' = [threads EXCEPT ![t].pc = "done", ![t].dump = NoSelf]
    /\ last' = threads[t].call
    /\ overlap' = (overlap \/ Inside(t))
    /\ UNCHANGED <<heap, self, instance, held, faults, failed, live, owed>>

NextThreads ==
    \/ ThreadsConstruct
    \/ \E t \in Threads : ThreadSet(t)
    \/ \E t \in Threads : ThreadAdd(t)
    \/ \E t \in Threads : ThreadRemove(t)
    \/ \E t \in Threads : ThreadBuild(t)
    \/ \E t \in Threads : ThreadWrite(t)

SpecThreads == InitIso /\ [][NextThreads]_vars

----------------------------------------------------------------------------
(* What a caller observes, as values: the results of the read methods, and  *)
(* the three fields of the instance.                                        *)

\* the value get_subbed_channels() returns
SubsValue ==
    With(get_subbed_channels(heap, self), LAMBDA r : pickle_dump(r.heap, r.ref))

\* the value get_notification_task_vars() returns
TaskVars ==
    With(get_notification_task_vars(heap, self),
         LAMBDA r : <<r.flag, pickle_dump(r.heap, r.ref)>>)

Count == subbed_channels_count(heap, self)

\* the ids in the instance's registry
Ids == DOMAIN heap[self["_subscribed_channels"].v].items

\* the three in-memory fields, by value
MemoryImage ==
    "_subscribed_channels" :> Obj(pickle_dump(heap, self["_subscribed_channels"].v))
    @@ "_launch_embed_for_current_schedule_sent" :>
           Bool(self["_launch_embed_for_current_schedule_sent"].b)
    @@ "_previous_schedule_embed_dict" :>
           Obj(pickle_dump(heap, self["_previous_schedule_embed_dict"].v))

Mutators == {"set_notification_task_vars", "add_subbed_channel", "remove_subbed_channel"}

\* the last call was a mutating call that changed the state and returned
ReturnedOk == last.op \in Mutators /\ last.result \in {"True", "None"}

----------------------------------------------------------------------------
(* C1: under serialized access, whenever a mutating call (set, an add that  *)
(* inserts, a remove that deletes) has returned successfully, the file      *)
(* holds a complete pickle whose three fields equal the three in-memory     *)
(* fields, changes left by earlier failed calls included.                   *)
C1_PersistedEqualsMemory ==
    ReturnedOk => file = Pickled(MemoryImage)

\* an add returned True after an earlier call of this instance had failed
C1_Witness ==
    /\ last.op = "add_subbed_channel"
    /\ last.result = "True"
    /\ failed
    /\ file = Pickled(MemoryImage)

(* C2: round trip.  When every mutating call of an instance returned       *)
(* successfully, the instance constructed next at the same path has the     *)
(* same get_subbed_channels() and get_notification_task_vars().             *)
C2_RoundTrip ==
    [][(last'.op = "init" /\ instance /\ ~failed)
          => (instance' /\ SubsValue' = SubsValue /\ TaskVars' = TaskVars)]_vars

\* a new instance holds channel 2, which only a call of an earlier instance
\* can have inserted, and the flag and nested embed dict an earlier set stored
C2_Witness ==
    /\ last.op = "init"
    /\ instance
    /\ 2 \in Ids
    /\ TaskVars = <<FALSE, SampleEmbeds[2]>>

\* the value of the object the caller holds
HeldValue == pickle_dump(heap, held.ref)

(* C3: registry isolation.  A caller step that mutates in place the dict    *)
(* get_subbed_channels() returned, or a SubscriptionOptions in it, changes  *)
(* neither what get_subbed_channels() returns nor subbed_channels_count,    *)
(* and the mutating call that saves next persists the registry as it is in  *)
(* the instance.                                                            *)
C3_RegistryIsolation ==
    [][/\ (last'.op = "caller" /\ held.is = "subs")
            => (SubsValue' = SubsValue /\ Count' = Count)
       /\ (last'.op \in Mutators /\ last'.result \in {"True", "None"} /\ held.is = "subs")
            => file'.val["_subscribed_channels"] = Obj(SubsValue')]_vars

\* a save succeeded while the caller holds a registry copy in which it rewrote
\* the launch_mentions of channel 1; the instance still has the stored options
C3_Witness ==
    /\ ReturnedOk
    /\ held.is = "subs"
    /\ 1 \in DOMAIN HeldValue.items
    /\ HeldValue.items[1].o = SubscriptionOptions("all", "")
    /\ 1 \in Ids
    /\ SubsValue.items[1].o = SubscriptionOptions("all", "@here")
    /\ file = Pickled(MemoryImage)

(* C4: snapshot isolation, both ways.  The instance's embed dict shares no  *)
(* object with the dict the caller holds, be it the one                     *)
(* get_notification_task_vars() returned or the one the caller passed to    *)
(* set_notification_task_vars(); a caller step that mutates it changes      *)
(* neither what get_notification_task_vars() returns nor what the next save *)
(* writes.                                                                  *)
C4_SnapshotIsolation ==
    [][/\ (last'.op = "caller" /\ held.is = "snap")
            => (TaskVars' = TaskVars /\ MemoryImage' = MemoryImage)
       /\ (instance' /\ held'.is = "snap")
            => Reachable(heap', held'.ref)
                 \cap Reachable(heap', self'["_previous_schedule_embed_dict"].v) = {}
       /\ (last'.op \in Mutators /\ last'.result \in {"True", "None"})
            => file'.val["_previous_schedule_embed_dict"] = Obj(TaskVars'[2])]_vars

\* the caller emptied the inner dict of an embed dict it holds, and the
\* instance still returns the nested embed dict stored by a set (flag False)
C4_Witness ==
    /\ last.op = "caller"
    /\ held.is = "snap"
    /\ HeldValue = Dict(1 :> Obj(Dict(EmptyItems)))
    /\ TaskVars = <<FALSE, SampleEmbeds[2]>>

(* C5: idempotent insert.  add_subbed_channel(id, t, m) called while id is  *)
(* in the registry returns False, leaves the registry as it was (the        *)
(* stored options of id are kept) and does not call save: the file is       *)
(* untouched.                                                               *)
C5_IdempotentInsert ==
    [][(last'.op = "add_subbed_channel" /\ last'.id \in Ids)
          => /\ last'.result = "False"
             /\ SubsValue' = SubsValue
             /\ last'.saves = 0
             /\ file' = file]_vars

\* an add returned False for an id stored with other options than it was given
C5_Witness ==
    /\ last.op = "add_subbed_channel"
    /\ last.result = "False"
    /\ last.id \in Ids
    /\ SubsValue.items[last.id].o # SubscriptionOptions(last.opt[1], last.opt[2])

(* C6, as claimed: remove_subbed_channel(id) returns True exactly once per  *)
(* successful prior insert of id: a remove that returns, returns True       *)
(* exactly when an add of id that returned True (or the load of id from the *)
(* file) has not been answered by a remove that returned True; and it       *)
(* returns False, changing and writing nothing, when id is absent.          *)
C6_SymmetricRemoval ==
    [][last'.op = "remove_subbed_channel"
          => /\ last'.result # "raise"
                  => ((last'.result = "True") <=> (last'.id \in owed))
             /\ last'.id \notin Ids
                  => (last'.result = "False" /\ SubsValue' = SubsValue
                      /\ last'.saves = 0 /\ file' = file)]_vars

(* C6, amended: an id is in the registry exactly when a call inserted it    *)
(* (an add that did not return False, whether or not its write succeeded,   *)
(* or the load) and no call removed it since.  Called on such an id,        *)
(* remove_subbed_channel deletes it and calls save once: it returns True    *)
(* when the write succeeds, and then the file holds the memory image, and   *)
(* raises when the write fails.  Called while the id is absent it returns   *)
(* False, the registry is unchanged and the file is not written.            *)
C6_RemovalPerInsertion ==
    [][last'.op = "remove_subbed_channel"
          => /\ (last'.id \in Ids) <=> (last'.id \in live)
             /\ last'.id \in Ids
                  => /\ last'.result \in {"True", "raise"}
                     /\ last'.id \notin Ids'
                     /\ last'.saves = 1
                     /\ (last'.result = "True") <=> (faults' = faults)
                     /\ last'.result = "True" => file' = Pickled(MemoryImage')
             /\ last'.id \notin Ids
                  => (last'.result = "False" /\ SubsValue' = SubsValue
                      /\ last'.saves = 0 /\ file' = file)]_vars

\* a remove returned False for an id whose True-returning add no True-returning
\* remove has answered: the remove in between deleted it and raised
C6_Witness ==
    /\ last.op = "remove_subbed_channel"
    /\ last.result = "False"
    /\ last.id \in owed
    /\ last.id \notin Ids

(* C7: count consistency.  subbed_channels_count is the number of ids that  *)
(* were inserted and not removed since, these ids are exactly the keys of   *)
(* the registry, and the count is the number of keys of                     *)
(* get_subbed_channels().  (A dict holds a key once.)                       *)
C7_CountConsistency ==
    instance => /\ Count = Cardinality(live)
                /\ Ids = live
                /\ Count = Cardinality(DOMAIN SubsValue.items)

\* after two inserts and one removal, one id is counted
C7_Witness ==
    /\ instance
    /\ last.op = "remove_subbed_channel"
    /\ last.result = "True"
    /\ live = {2}
    /\ Count = 1

(* C8: fresh start.  Constructing a store where no file exists raises no    *)
(* error and gives count 0, an empty registry, and (False, {}).             *)
C8_FreshStart ==
    (last.op = "init" /\ file.kind = "absent")
       => /\ instance
          /\ last.result = "None"
          /\ Count = 0
          /\ SubsValue = Dict(EmptyItems)
          /\ TaskVars = <<FALSE, Dict(EmptyItems)>>

C8_Witness ==
    /\ last.op = "init"
    /\ file.kind = "absent"
    /\ instance
    /\ Ids = {}

\* the file is a complete pickle of a dict with exactly the three fields
CompleteImage ==
    /\ file.kind = "pickle"
    /\ DOMAIN file.val = {AttrNames[i] : i \in 1..Len(AttrNames)}

(* C9: load corruption is fatal.  When the file exists and is not a         *)
(* complete image (it cannot be read, cannot be unpickled, or unpickles to  *)
(* something without the three fields), construction raises and yields no   *)
(* instance.                                                                *)
C9_LoadCorruptionFatal ==
    (last.op = "init" /\ file.kind # "absent" /\ ~CompleteImage)
       => (~instance /\ last.result = "raise")

(* C10: a write error is never reported as success.  A call in which the    *)
(* file write fails is a mutating call that ends with the error raised, and *)
(* it called save once: there is no retry.                                  *)
C10_WriteErrorPropagates ==
    [][faults' > faults
          => /\ last'.op \in Mutators
             /\ last'.result = "raise"
             /\ last'.saves = 1]_vars

C10_Witness ==
    /\ last.op = "add_subbed_channel"
    /\ last.result = "raise"
    /\ faults > 0
    /\ last.id \in Ids

C12_AtomicWrite ==
    [][/\ file' # file => (CompleteImage' /\ file' = Pickled(MemoryImage'))
       /\ faults' > faults => file' = file]_vars

\* no thread is inside a call
Quiet == \A t \in Threads : threads[t].pc \in {"idle", "done"}

(* C13, serialized half: when no step of a call was taken while another     *)
(* call was between its update and its write (each call ran as one          *)
(* indivisible step), then once no call is running and the call that        *)
(* returned last changed the state and returned successfully, the file      *)
(* holds the memory image.  The state of the witness, in which all calls    *)
(* returned successfully and the file holds a complete image that is not    *)
(* the memory image, is reached only with interleaved calls.                *)
C13_SerializedInSync ==
    (Quiet /\ ~overlap /\ ReturnedOk) => file = Pickled(MemoryImage)

\* lost update: every thread's call changed the state and returned
\* successfully, and the complete image on disk is not the memory image
C13_Witness ==
    /\ \A t \in Threads :
         threads[t].pc = "done" /\ threads[t].call.result \in {"True", "None"}
    /\ overlap
    /\ CompleteImage
    /\ file # Pickled(MemoryImage)

(* C14, as claimed: after add_subbed_channel(id, t, m) returned True the    *)
(* registry holds SubscriptionOptions(t, m) for id, and every operation on  *)
(* the instance keeps id with exactly that value until a                    *)
(* remove_subbed_channel(id) returns True.                                  *)
C14_StableUntilRemoveReturns ==
    [][(last'.op # "init" /\ instance)
          => /\ (last'.op = "add_subbed_channel" /\ last'.result = "True")
                  => SubsValue'.items[last'.id].o
                        = SubscriptionOptions(last'.opt[1], last'.opt[2])
             /\ \A id \in owed :
                  \/ /\ last'.op = "remove_subbed_channel"
                     /\ last'.id = id
                     /\ last'.result = "True"
                  \/ /\ id \in Ids
                     /\ id \in Ids'
                     /\ SubsValue'.items[id] = SubsValue.items[id]]_vars

(* C14, amended: after an add_subbed_channel(id, t, m) that inserted (it    *)
(* returned True, or raised at the file write) the registry holds           *)
(* SubscriptionOptions(t, m) for id; and every operation on the instance    *)
(* keeps an id of the registry with exactly its value, except a             *)
(* remove_subbed_channel of that id, which deletes it whether it returns    *)
(* True or raises at the file write.                                        *)
C14_OptionsStable ==
    [][(last'.op # "init" /\ instance)
          => /\ (last'.op = "add_subbed_channel" /\ last'.result # "False")
                  => SubsValue'.items[last'.id].o
                        = SubscriptionOptions(last'.opt[1], last'.opt[2])
             /\ \A id \in Ids :
                  \/ /\ last'.op = "remove_subbed_channel"
                     /\ last'.id = id
                     /\ last'.result \in {"True", "raise"}
                     /\ id \notin Ids'
                  \/ /\ id \in Ids'
                     /\ SubsValue'.items[id] = SubsValue.items[id]]_vars

\* id 1 holds the options an add gave it (no file the process starts with
\* holds them) after an add of id 2 and a remove of id 2 that returned True
C14_Witness ==
    /\ last.op = "remove_subbed_channel"
    /\ last.result = "True"
    /\ last.id = 2
    /\ 1 \in Ids
    /\ SubsValue.items[1].o = SubscriptionOptions("launch", "")

(* C15: set then get.  From every state, when                               *)
(* set_notification_task_vars(sent, s) returns, get_notification_task_vars  *)
(* returns (sent, a value equal to s).  Every call of it calls save once,   *)
(* also when sent and s equal the values the instance holds, and when it    *)
(* returns the file is the image of the three fields.                       *)
C15_SetThenGet ==
    [][last'.op = "set_notification_task_vars"
          => /\ last'.saves = 1
             /\ last'.result = "None"
                  => /\ TaskVars' = <<last'.opt = SentOpt(TRUE), HeldValue>>
                     /\ file' = Pickled(MemoryImage')
                     /\ file'.val["_launch_embed_for_current_schedule_sent"]
                            = Bool(last'.opt = SentOpt(TRUE))
                     /\ file'.val["_previous_schedule_embed_dict"] = Obj(HeldValue)]_vars

\* a set with (False, {}), the values a new instance holds, returned: the
\* reads return them and the file holds them
C15_Witness ==
    /\ last.op = "set_notification_task_vars"
    /\ last.result = "None"
    /\ TaskVars = <<FALSE, Dict(EmptyItems)>>
    /\ Ids = {}
    /\ file = Pickled(MemoryImage)

\* the registry without the entry of id
Others(subs, id) == DictDel(subs.items, id)

(* C16: field independence.  set_notification_task_vars leaves the registry *)
(* unchanged; add_subbed_channel and remove_subbed_channel leave the flag   *)
(* and the embed dict unchanged and leave the entry of every other id       *)
(* unchanged; and the image a call persists holds the untouched fields as   *)
(* they were in memory before the call.                                     *)
C16_FieldIndependence ==
    [][/\ last'.op = "set_notification_task_vars"
            => /\ SubsValue' = SubsValue
               /\ last'.result = "None"
                    => file'.val["_subscribed_channels"] = Obj(SubsValue)
       /\ last'.op \in {"add_subbed_channel", "remove_subbed_channel"}
            => /\ TaskVars' = TaskVars
               /\ Others(SubsValue', last'.id) = Others(SubsValue, last'.id)
               /\ last'.result = "True"
                    => /\ file'.val["_launch_embed_for_current_schedule_sent"]
                              = Bool(TaskVars[1])
                       /\ file'.val["_previous_schedule_embed_dict"] = Obj(TaskVars[2])
                       /\ Others(file'.val["_subscribed_channels"].o, last'.id)
                              = Others(SubsValue, last'.id)]_vars

\* an add of id 2 returned True in an instance that holds id 1, the flag
\* set and a nested embed dict, and the file holds all of it
C16_Witness ==
    /\ last.op = "add_subbed_channel"
    /\ last.result = "True"
    /\ last.id = 2
    /\ 1 \in Ids
    /\ TaskVars = <<TRUE, SampleEmbeds[2]>>
    /\ file = Pickled(MemoryImage)

Reads == {"get_notification_task_vars", "get_subbed_channels", "subbed_channels_count"}

(* C17: reads are pure and construction does not write.  The three read     *)
(* methods change none of the three fields and leave the file as it is;     *)
(* constructing a store, with a file or without, leaves the file as it is   *)
(* (no file is created); the file changes only in a mutating call that      *)
(* reached save.                                                            *)
C17_ReadsArePure ==
    [][/\ last'.op \in Reads
            => (MemoryImage' = MemoryImage /\ file' = file /\ last'.saves = 0)
       /\ last'.op = "init" => (file' = file /\ last'.saves = 0)
       /\ file' # file => (last'.op \in Mutators /\ last'.saves = 1)]_vars

\* an instance constructed where there is no file has been read, and there
\* is still no file
C17_Witness ==
    /\ last.op = "get_subbed_channels"
    /\ instance
    /\ held.is = "subs"
    /\ file.kind = "absent"

\* the three fields of an instance, by value
ImageOf(h, slf) ==
    "_subscribed_channels" :> Obj(pickle_dump(h, slf["_subscribed_channels"].v))
    @@ "_launch_embed_for_current_schedule_sent" :>
           Bool(slf["_launch_embed_for_current_schedule_sent"].b)
    @@ "_previous_schedule_embed_dict" :>
           Obj(pickle_dump(h, slf["_previous_schedule_embed_dict"].v))

\* whether a store can be constructed from fl
Loadable(fl) == DataStore_init(<<>>, fl).instance

\* the three fields of the store constructed from fl
LoadedImage(fl) ==
    With(DataStore_init(<<>>, fl),
         LAMBDA r : IF r.instance THEN ImageOf(r.heap, r.self) ELSE NoSelf)

\* memory and disk agree: a store constructed from fl would hold the three
\* fields the instance slf holds
InSyncOf(fl, h, slf) == Loadable(fl) /\ LoadedImage(fl) = ImageOf(h, slf)

InSync == InSyncOf(file, heap, self)

\* the step is a retry: the call repeats, for the same id, the add or the
\* remove that has just raised
Retry(op) ==
    /\ last.op = op
    /\ last.result = "raise"
    /\ last'.op = op
    /\ last'.id = last.id

(* C18, as claimed: a retry of an add or a remove that failed at the file   *)
(* write returns False without writing; from then on memory and disk stay   *)
(* diverged through every step that is not a state-changing mutating call   *)
(* returning successfully; and a store constructed right after the failed   *)
(* call does not hold the failed call's change.                             *)
C18_DivergedUntilSuccess ==
    [][/\ (Retry("add_subbed_channel") \/ Retry("remove_subbed_channel"))
            => (last'.result = "False" /\ last'.saves = 0 /\ file' = file)
       /\ (/\ instance /\ failed /\ ~InSync
           /\ last'.op # "init"
           /\ ~(last'.op \in Mutators /\ last'.result \in {"True", "None"}))
            => ~InSyncOf(file', heap', self')
       /\ (last.op = "add_subbed_channel" /\ last.result = "raise"
              /\ last'.op = "init" /\ instance')
            => last.id \notin Ids'
       /\ (last.op = "remove_subbed_channel" /\ last.result = "raise"
              /\ last'.op = "init" /\ instance')
            => last.id \in Ids']_vars

(* C18, amended: a retry of an add or a remove that failed at the file      *)
(* write returns False without calling save and changes nothing.  No call   *)
(* that does not reach save (a read, a retry) changes the file or the three *)
(* fields, so it ends no divergence.  A failed write changes nothing of     *)
(* what a construction from the path finds: it finds what it would have     *)
(* found before the failed call, or fails on a truncated file.  A           *)
(* state-changing mutating call that returns successfully leaves memory and *)
(* disk in agreement.  (A state-changing call that fails may also end a     *)
(* divergence, by undoing in memory the change that was never saved.)       *)
C18_RetryDoesNotSave ==
    [][/\ (Retry("add_subbed_channel") \/ Retry("remove_subbed_channel"))
            => /\ last'.result = "False"
               /\ last'.saves = 0
               /\ file' = file
               /\ MemoryImage' = MemoryImage
       /\ (last'.op # "init" /\ last'.saves = 0)
            => (file' = file /\ MemoryImage' = MemoryImage /\ (InSyncOf(file', heap', self') <=> InSync))
       /\ faults' > faults
            => (Loadable(file') => (Loadable(file) /\ LoadedImage(file') = LoadedImage(file)))
       /\ (last'.op \in Mutators /\ last'.result \in {"True", "None"})
            => InSyncOf(file', heap', self')]_vars

\* the add of an id raised and its retry returned False: the instance holds
\* the id, and the complete image on disk does not
C18_Witness ==
    /\ last.op = "add_subbed_channel"
    /\ last.result = "False"
    /\ failed
    /\ last.id \in Ids
    /\ CompleteImage
    /\ last.id \notin PickledIds(file)
    /\ ~InSync

====
